---- MODULE Spec2Model ----
(***************************************************************************)
(* Model of the ETL pipeline contract of UKSchoolData:                     *)
(*   BaseETLPipeline (scripts/ETL/base_ETL_framework.py) instantiated by   *)
(*   KS4PerformancePipeline (scripts/ETL/ks4_etl_pipeline.py), writing     *)
(*   through UKEducationDB (scripts/ETL/ukeducationdbconnection.py).       *)
(*                                                                         *)
(* One pipeline instance is constructed and run() is called on it up to    *)
(* MaxRuns times, each time on the same source file.  run() is split at    *)
(* the points where the environment decides something: the file read of    *)
(* extract, the store read of the pre-load hook, each table write and the  *)
(* audit write.                                                            *)
(*                                                                         *)
(* A DataFrame is a sequence of rows (records); its columns are the fields *)
(* of its rows, and a DataFrame built from an empty list of records has no *)
(* columns.  The source files of the model have no geographic_level column *)
(* (the filter of extract is conditional on it) and none of the metric     *)
(* columns, which transform reads with row.get().                          *)
(***************************************************************************)
EXTENDS Integers, Sequences, FiniteSets, TLC

\* ------------------------------------------------------------------ bounds
MaxRows == 2
MaxRuns == 2
MaxPieces == 2

\* ------------------------------------------------------- program constants
URN_MIN == 100000
URN_MAX == 9999999

None == "None"
academic_year == "2023-24"

\* The school_urn cells a source file may hold (read with dtype=str), in the
\* order groupby('school_urn') sorts them.
UrnTokens == <<"0123456", "123456", "234567", "99", "abc">>
TokenSet == {UrnTokens[i] : i \in 1..Len(UrnTokens)}

\* int(row['school_urn']): the tokens that parse, and their values.
IntParses(tok) == tok \in {"0123456", "123456", "234567", "99"}
IntOf(tok) ==
  CASE tok = "0123456" -> 123456
    [] tok = "123456" -> 123456
    [] tok = "234567" -> 234567
    [] tok = "99" -> 99

SeqUpTo(S, n) == UNION {[1..k -> S] : k \in 0..n}

\* The cells of the model's files come in the order of UrnTokens; a cell may
\* repeat (a school with several rows).
TokenIndex(tok) == CHOOSE i \in 1..Len(UrnTokens) : UrnTokens[i] = tok
UrnColumns ==
  {s \in SeqUpTo(TokenSet, MaxRows) :
     \A i \in 1..(Len(s) - 1) : TokenIndex(s[i]) <= TokenIndex(s[i + 1])}

\* A source file: its header and the school_urn cell of each row.  NoFile is a
\* path pd.read_csv cannot read.
FileColumns == {{"school_urn", "school_name"}, {"school_urn"}}
NoFile == [readable |-> FALSE, cols |-> {}, urns |-> <<>>]
NoUrnFile == [readable |-> TRUE, cols |-> {"school_name"}, urns |-> <<>>]
Files ==
  [readable : {TRUE}, cols : FileColumns, urns : UrnColumns]
    \cup {NoUrnFile, NoFile}

DataTables == {"schools", "school_performance"}

VARIABLES
  pc,            \* position of run(): idle, extract, transform, load, record, except, returned
  runs,          \* number of run() calls made on the instance
  current_file,  \* the file of the current run (its content)
  raw_data,      \* what extract returned
  transformed_data, \* what transform returned: table name -> DataFrame
  todo,          \* tables of transformed_data load() has still to iterate over
  load_results,  \* load()'s results dict
  errors,        \* self.errors
  warnings,      \* self.warnings
  results,       \* run()'s results dict
  store,         \* the destination tables: table name -> rows
  data_sources,  \* the audit ledger
  events,        \* history: what the current run did, in order
  start,         \* history: the store, ledger and logs when the current run began
  first,         \* history: the outcome of the instance's first run
  call,          \* the arguments of a helper or registry method called on its own
  ret,           \* what that call returned
  pipelines,     \* the registry: pipeline name -> registered class
  instance       \* the pipeline object run() works on: its class and academic_year

vars == <<pc, runs, current_file, raw_data, transformed_data, todo, load_results,
          errors, warnings, results, store, data_sources, events, start, first,
          call, ret, pipelines, instance>>

\* KS4PerformancePipeline(**kwargs): the object constructed; academic_year
\* defaults to '2023-24'.
KS4PerformancePipeline(kwargs) ==
  [class |-> "KS4PerformancePipeline",
   academic_year |-> IF "academic_year" \in DOMAIN kwargs THEN kwargs.academic_year
                     ELSE academic_year]

\* The module-level registry after its one register_pipeline call.
DefaultRegistry == [n \in {"ks4_performance"} |-> "KS4PerformancePipeline"]

\* ----------------------------------------------------------- DataFrames
Columns(df) == IF df = <<>> THEN {} ELSE DOMAIN df[1]

\* df.empty: no rows or no columns.
IsEmpty(df) == df = <<>> \/ Columns(df) = {}

RECURSIVE Pick(_, _, _)
\* The rows of df at the indices i >= from that are in keep, in order.
Pick(df, keep, from) ==
  IF from > Len(df) THEN <<>>
  ELSE (IF from \in keep THEN <<df[from]>> ELSE <<>>) \o Pick(df, keep, from + 1)

\* df[mask]: the rows of df at the indices in keep.
Rows(df, keep) == Pick(df, keep, 1)

KeyOf(row, subset) == [c \in subset |-> row[c]]

\* Mutant: the duplicates are left in the frame.
drop_duplicates_none(df, subset) == df

\* df.drop_duplicates(subset=...): the first row of every key is kept.
drop_duplicates(df, subset) ==
  Rows(df, {i \in DOMAIN df :
              \A j \in 1..(i - 1) : KeyOf(df[j], subset) # KeyOf(df[i], subset)})

RECURSIVE SumOver(_, _)
SumOver(f, S) ==
  IF S = {} THEN 0
  ELSE LET k == CHOOSE x \in S : TRUE IN f[k] + SumOver(f, S \ {k})

\* sum(load_results.values())
SumValues(f) == SumOver(f, DOMAIN f)

EmptyDict == [k \in {} |-> 0]

\* ------------------------------------------------- BaseETLPipeline helpers
\* Messages are records: the text of the f-string and the values it formats.
Msg(text, arg) == [msg |-> text, arg |-> arg]

_get_required_columns(table_name) ==
  CASE table_name = "schools" -> {"urn", "school_name"}
    [] table_name = "school_performance" -> {"urn", "academic_year", "key_stage"}
    [] table_name = "sen_pupils" -> {"academic_year", "sen_provision"}
    [] table_name = "local_authorities" -> {"la_code", "la_name", "region"}
    [] table_name = "ofsted_inspections" -> {"urn", "inspection_date"}
    [] OTHER -> {}

\* Mutant: only emptiness is checked, not the required columns.
validate_data_emptyonly(df, table_name, errs) ==
  IF IsEmpty(df)
  THEN [ret |-> FALSE, errors |-> Append(errs, Msg("Empty dataset for", table_name))]
  ELSE [ret |-> TRUE, errors |-> errs]

\* validate_data: the value returned and self.errors afterwards.
validate_data(df, table_name, errs) ==
  IF IsEmpty(df)
  THEN [ret |-> FALSE, errors |-> Append(errs, Msg("Empty dataset for", table_name))]
  ELSE LET missing_cols == _get_required_columns(table_name) \ Columns(df)
       IN IF missing_cols # {}
          THEN [ret |-> FALSE,
                errors |-> Append(errs, Msg("Missing required columns for", table_name))]
          ELSE [ret |-> TRUE, errors |-> errs]

\* A column of text cells is a sequence of strings; NaCell stands for np.nan in
\* such a column.
NaCell == "NaN"
dfe_codes == <<"z", "c", "x", ".", "SUPP", "NE", "LOW", "HIGH">>

\* ETLConfig.DFE_CODES
DFE_CODES == <<"z", "c", "x", ".", "SUPP", "NE", "LOW", "HIGH", "LOWCOV">>

\* Mutant: every cell is replaced, whatever it holds.
replace_any(cleaned, to_replace, value) ==
  [i \in DOMAIN cleaned |-> value]

\* Series.replace(to_replace, value) with a scalar: a new column in which the
\* cells equal to to_replace hold value.
replace(cleaned, to_replace, value) ==
  [i \in DOMAIN cleaned |-> IF cleaned[i] = to_replace THEN value ELSE cleaned[i]]

RECURSIVE ReplaceEach(_, _)
\* The loop of clean_dfe_codes over the codes still to replace.
ReplaceEach(cleaned, codes) ==
  IF codes = <<>> THEN cleaned
  ELSE ReplaceEach(replace(cleaned, Head(codes), NaCell), Tail(codes))

\* clean_dfe_codes: the column returned and the caller's column afterwards
\* (the loop works on series.copy()).
clean_dfe_codes(series) ==
  [cleaned |-> ReplaceEach(series, dfe_codes), series |-> series]

\* ------------------------------------------------------ DataQualityMixin
\* check_urn_validity: the frame returned and self.warnings afterwards.  The
\* urn cells it is given are the ints transform made, so to_numeric keeps them.
check_urn_validity(df, warns) ==
  IF "urn" \notin Columns(df)
  THEN [df |-> df, warnings |-> warns]
  ELSE LET kept == Rows(df, {i \in DOMAIN df :
                                df[i].urn >= URN_MIN /\ df[i].urn <= URN_MAX})
       IN [df |-> kept,
           warnings |-> IF Len(kept) < Len(df)
                        THEN Append(warns, Msg("Removed records with invalid URNs",
                                               Len(df) - Len(kept)))
                        ELSE warns]

\* A numeric cell is <<v>> for a whole number v and <<v, t>> for v + t/10 with t
\* in 1..9; np.nan is <<>>.  Every comparison with np.nan is False.
nan == <<>>
Num(v) == <<v>>
IsNum(cell) == cell # nan
IsWhole(cell) == Len(cell) = 1
GreaterEqual(cell, k) == IsNum(cell) /\ cell[1] >= k
LessEqual(cell, k) == IsNum(cell) /\ (cell[1] < k \/ (cell[1] = k /\ IsWhole(cell)))

\* pd.to_numeric(cell, errors='coerce') of the identifier cells of the model.
to_numeric(cell) ==
  CASE cell = "123456" -> Num(123456)
    [] cell = "100000" -> Num(100000)
    [] cell = "10000000" -> Num(10000000)
    [] cell = "99" -> Num(99)
    [] cell = "123456.5" -> <<123456, 5>>
    [] cell = "5" -> Num(5)
    [] OTHER -> nan

\* clean_numeric_column: clean_dfe_codes, then pd.to_numeric(errors='coerce')
\* cell by cell; both branches of `integer` return the same column.
clean_numeric_column(series) ==
  LET cleaned == clean_dfe_codes(series).cleaned
  IN [i \in DOMAIN cleaned |-> to_numeric(cleaned[i])]

\* check_urn_validity on a frame whose urn cells are as read (not yet numbers):
\* the frame returned, its urn column numeric, and self.warnings afterwards.
check_urn_validity_raw(df, warns) ==
  IF "urn" \notin Columns(df)
  THEN [df |-> df, warnings |-> warns]
  ELSE LET initial_count == Len(df)
           numeric == [i \in DOMAIN df |-> [df[i] EXCEPT !.urn = to_numeric(@)]]
           notna == Rows(numeric, {i \in DOMAIN numeric : IsNum(numeric[i].urn)})
           kept == Rows(notna, {i \in DOMAIN notna :
                                  /\ GreaterEqual(notna[i].urn, URN_MIN)
                                  /\ LessEqual(notna[i].urn, URN_MAX)})
       IN [df |-> kept,
           warnings |-> IF Len(kept) < initial_count
                        THEN Append(warns, Msg("Removed records with invalid URNs",
                                               initial_count - Len(kept)))
                        ELSE warns]

\* Mutant: the bounds themselves are treated as out of range.
invalid_mask_exclusive(cell, min_val, max_val) ==
  IsNum(cell) /\ (cell[1] <= min_val \/ cell[1] >= max_val)

\* (df[col] < min_val) | (df[col] > max_val), for one cell.
invalid_mask(cell, min_val, max_val) ==
  IsNum(cell) /\ (cell[1] < min_val \/ cell[1] > max_val)

\* The body of the loops of check_percentage_ranges and check_score_ranges for
\* one column: the frame and self.warnings afterwards.
CheckRange(df, warns, col, min_val, max_val, text) ==
  IF col \notin Columns(df)
  THEN [df |-> df, warnings |-> warns]
  ELSE LET mask == {i \in DOMAIN df : invalid_mask(df[i][col], min_val, max_val)}
           invalid_count == Cardinality(mask)
       IN IF invalid_count > 0
          THEN [df |-> [i \in DOMAIN df |->
                          IF i \in mask THEN [df[i] EXCEPT ![col] = nan] ELSE df[i]],
                warnings |-> Append(warns, [msg |-> text, arg |-> invalid_count,
                                            col |-> col])]
          ELSE [df |-> df, warnings |-> warns]

RECURSIVE check_percentage_ranges(_, _, _)
\* check_percentage_ranges: percentage_cols is the list of column names.
check_percentage_ranges(df, percentage_cols, warns) ==
  IF percentage_cols = <<>>
  THEN [df |-> df, warnings |-> warns]
  ELSE LET r == CheckRange(df, warns, Head(percentage_cols), 0, 100,
                           "Found invalid percentages in")
       IN check_percentage_ranges(r.df, Tail(percentage_cols), r.warnings)

RECURSIVE check_score_ranges(_, _, _)
\* check_score_ranges: score_configs is the dict, as the sequence of its items.
check_score_ranges(df, score_configs, warns) ==
  IF score_configs = <<>>
  THEN [df |-> df, warnings |-> warns]
  ELSE LET item == Head(score_configs)
           r == CheckRange(df, warns, item.col, item.min_val, item.max_val,
                           "Found out-of-range values in")
       IN check_score_ranges(r.df, Tail(score_configs), r.warnings)

\* The lists _transform_performance passes to the two checks.
percentage_cols ==
  <<"ebacc_entries_percentage", "grade_5_english_maths_percentage",
    "grade_4_english_maths_percentage">>
score_ranges ==
  <<[col |-> "attainment_8_score", min_val |-> 0, max_val |-> 90],
    [col |-> "progress_8_score", min_val |-> -3, max_val |-> 3],
    [col |-> "ebacc_average_point_score", min_val |-> 0, max_val |-> 9]>>

\* ------------------------------------------------ KS4PerformancePipeline
\* extract: pd.read_csv raises when the file cannot be read.
ExtractRaises(file) == ~file.readable

\* df.groupby('school_urn').first().reset_index(): one row per distinct cell,
\* sorted by the cell.
GroupKeys(urns) ==
  LET present == {urns[i] : i \in 1..Len(urns)}
  IN SelectSeq(UrnTokens, LAMBDA t : t \in present)

\* The loop of _transform_schools / _transform_performance: a row whose urn
\* does not parse raises ValueError and is skipped.
ParsedKeys(raw) == SelectSeq(GroupKeys(raw.urns), IntParses)

\* groupby raises KeyError without a school_urn column; row['school_name']
\* raises KeyError (not caught by the loop) for the first row whose urn parsed.
TransformRaises(raw) ==
  \/ "school_urn" \notin raw.cols
  \/ "school_name" \notin raw.cols /\ ParsedKeys(raw) # <<>>

\* The school_name cell of a group is written as the group's school_urn cell.
_transform_schools(raw, warns) ==
  LET keys == ParsedKeys(raw)
      school_records == [i \in 1..Len(keys) |->
                           [urn |-> IntOf(keys[i]), school_name |-> keys[i]]]
  IN check_urn_validity(school_records, warns)

_transform_performance(raw, warns) ==
  LET keys == ParsedKeys(raw)
      perf_records == [i \in 1..Len(keys) |->
                         [urn |-> IntOf(keys[i]), academic_year |-> instance.academic_year,
                          key_stage |-> "KS4"]]
  IN check_urn_validity(perf_records, warns)

\* Mutant: the dict of transform lists school_performance first.
TransformOrder_performance_first == <<"school_performance", "schools">>

\* The keys of the dict transform returns, in insertion order.
TransformOrder == <<"schools", "school_performance">>

\* transform: the dict returned and self.warnings afterwards.
transform(raw, warns) ==
  LET s == _transform_schools(raw, warns)
      p == _transform_performance(raw, s.warnings)
  IN [data |-> [t \in DataTables |-> IF t = "schools" THEN s.df ELSE p.df],
      warnings |-> p.warnings]

NoHook == "no pre_load_transform"

get_load_config ==
  [t \in DataTables |->
     IF t = "schools"
     THEN [drop_duplicates |-> {"urn"}, if_exists |-> "append",
           pre_load_transform |-> NoHook]
     ELSE [drop_duplicates |-> {"urn", "academic_year", "key_stage"},
           if_exists |-> "append",
           pre_load_transform |-> "_filter_existing_schools"]]

\* Mutant: the hook reads schools and returns the frame as it was.
_filter_existing_schools_all(df, existing_schools) == df

\* _filter_existing_schools, given the rows read_sql returned for schools.
_filter_existing_schools(df, existing_schools) ==
  LET existing_urns == {existing_schools[i].urn : i \in 1..Len(existing_schools)}
  IN Rows(df, {i \in DOMAIN df : df[i].urn \in existing_urns})

\* ---------------------------------------------------------- UKEducationDB
\* Mutant: every write replaces the table.
write_dataframe_replace(st, df, table_name, if_exists) ==
  [st EXCEPT ![table_name] = df]

\* write_dataframe when to_sql does not raise.  The frames of the model are
\* shorter than chunksize, so a write is one INSERT: it adds all its rows or,
\* when it raises, none.
write_dataframe(st, df, table_name, if_exists) ==
  IF if_exists = "replace"
  THEN [st EXCEPT ![table_name] = df]
  ELSE [st EXCEPT ![table_name] = @ \o df]

\* ------------------------------------------------- BaseETLPipeline.load
\* Mutant: the failed table is logged but not recorded in the results dict.
OnLoadFailure_norecord(table_name, errs, lres) ==
  [errors |-> Append(errs, Msg("Failed to load", table_name)),
   load_results |-> lres]

\* Lines 117-121: the handler of an exception raised in an iteration.
OnLoadFailure(table_name, errs, lres) ==
  [errors |-> Append(errs, Msg("Failed to load", table_name)),
   load_results |-> (table_name :> 0) @@ lres]

\* Mutant: the count before the pre-load hook and the de-duplication.
RecordedCount_initial(df, written) == Len(df)

\* Line 114: the count recorded for a written table.  df is the frame that was
\* validated, written the frame handed to write_dataframe.
RecordedCount(df, written) == Len(written)

\* One iteration of load()'s loop, for table_name and its frame df.  read_ok
\* and write_ok say whether the hook's read_sql and the write's to_sql return
\* (TRUE) or raise (FALSE).  Gives the store, self.errors, self.warnings and
\* the results dict afterwards, and the events of the iteration.
LoadIteration(table_name, df, st, errs, warns, lres, read_ok, write_ok) ==
  LET load_config == get_load_config
      same == [store |-> st, errors |-> errs, warnings |-> warns,
               load_results |-> lres, events |-> <<>>]
      failed(evs) ==
        LET h == OnLoadFailure(table_name, errs, lres)
        IN [same EXCEPT !.errors = h.errors, !.load_results = h.load_results,
                        !.events = evs]
  IN IF table_name \notin DOMAIN load_config
     THEN [same EXCEPT !.warnings = Append(warns, Msg("No load config for table", table_name)),
                       !.events = <<[ev |-> "noconfig", table |-> table_name]>>]
     ELSE
       LET config == load_config[table_name]
           v == validate_data(df, table_name, errs)
           hooked == config.pre_load_transform # NoHook
           read_ev == IF hooked
                      THEN <<[ev |-> "read", table |-> table_name, ok |-> read_ok]>>
                      ELSE <<>>
           df1 == IF hooked THEN _filter_existing_schools(df, st["schools"]) ELSE df
           df2 == IF config.drop_duplicates # {}
                  THEN drop_duplicates(df1, config.drop_duplicates)
                  ELSE df1
           write_ev == [ev |-> "write", table |-> table_name, ok |-> write_ok, rows |-> df2]
       IN IF ~v.ret
          THEN [same EXCEPT !.errors = v.errors,
                            !.events = <<[ev |-> "invalid", table |-> table_name]>>]
          ELSE IF hooked /\ ~read_ok
          THEN failed(read_ev)
          ELSE IF ~write_ok
          THEN failed(read_ev \o <<write_ev>>)
          ELSE [same EXCEPT !.store = write_dataframe(st, df2, table_name, config.if_exists),
                            !.load_results = (table_name :> RecordedCount(df, df2)) @@ lres,
                            !.events = read_ev \o <<write_ev>>]

\* ------------------------------------- BaseETLPipeline.record_data_source
\* Mutant: the status argument is ignored.
SourceRecord_success(records_loaded, status, errs) ==
  [records_loaded |-> records_loaded,
   load_status |-> "success",
   error_message |-> IF errs # <<>> THEN errs ELSE <<None>>]

\* The row record_data_source builds ('; '.join(self.errors) is written as the
\* sequence it joins).
SourceRecord(records_loaded, status, errs) ==
  [records_loaded |-> records_loaded,
   load_status |-> status,
   error_message |-> IF errs # <<>> THEN errs ELSE <<None>>]

\* Mutant: a failed audit write is raised to the caller.
record_data_source_reraises(ledger, records_loaded, status, errs, audit_ok) ==
  [data_sources |-> IF audit_ok
                    THEN Append(ledger, [records_loaded |-> records_loaded,
                                         load_status |-> status,
                                         error_message |-> IF errs # <<>> THEN errs
                                                           ELSE <<None>>])
                    ELSE ledger,
   raised |-> ~audit_ok]

\* Mutant: the audit write replaces the ledger by its one row.
record_data_source_replace(ledger, records_loaded, status, errs, audit_ok) ==
  [data_sources |-> IF audit_ok
                    THEN <<[records_loaded |-> records_loaded,
                            load_status |-> status,
                            error_message |-> IF errs # <<>> THEN errs ELSE <<None>>]>>
                    ELSE ledger,
   raised |-> FALSE]

\* record_data_source: the ledger afterwards and whether the call raised.
\* audit_ok says whether the write returns (TRUE) or raises (FALSE); the
\* except clause of record_data_source logs it and returns.
record_data_source(ledger, records_loaded, status, errs, audit_ok) ==
  [data_sources |-> IF audit_ok
                    THEN Append(ledger, SourceRecord(records_loaded, status, errs))
                    ELSE ledger,
   raised |-> FALSE]

\* ------------------------------------------------------- PipelineRegistry
\* A path is the text of its directory part and of its file name, each a
\* sequence of pieces; no keyword of the detection rules spans two pieces.
\* str.lower() of a piece:
lower(piece) ==
  CASE piece = "Key-Stage-4" -> "key-stage-4"
    [] piece = "Inspection" -> "inspection"
    [] piece = "SEN_" -> "sen_"
    [] OTHER -> piece

\* keyword in text.lower()
Contains(text, keyword) == \E i \in DOMAIN text : lower(text[i]) = keyword

\* Mutant: the special-needs rule is tried before the key-stage-4 rule.
auto_detect_pipeline_sen_first(file_path) ==
  LET file_name == file_path.name
      full == file_path.parent \o file_path.name
  IN IF Contains(full, "special-educational-needs") \/ Contains(file_name, "sen_")
     THEN "sen_statistics"
     ELSE IF Contains(full, "key-stage-4") \/ Contains(file_name, "performance_tables")
     THEN "ks4_performance"
     ELSE IF Contains(full, "ofsted") \/ Contains(file_name, "inspection")
     THEN "ofsted_inspections"
     ELSE IF Contains(file_name, "graduate") \/ Contains(file_name, "labour")
     THEN "graduate_outcomes"
     ELSE None

\* auto_detect_pipeline: full is str(file_path), file_name is file_path.name.
auto_detect_pipeline(file_path) ==
  LET file_name == file_path.name
      full == file_path.parent \o file_path.name
  IN IF Contains(full, "key-stage-4") \/ Contains(file_name, "performance_tables")
     THEN "ks4_performance"
     ELSE IF Contains(full, "special-educational-needs") \/ Contains(file_name, "sen_")
     THEN "sen_statistics"
     ELSE IF Contains(full, "ofsted") \/ Contains(file_name, "inspection")
     THEN "ofsted_inspections"
     ELSE IF Contains(file_name, "graduate") \/ Contains(file_name, "labour")
     THEN "graduate_outcomes"
     ELSE None

\* register_pipeline: the registry afterwards (an entry of the same name is
\* overwritten).
register_pipeline(reg, name, pipeline_class) == (name :> pipeline_class) @@ reg

\* Mutant: a name that is not registered falls back to the key-stage-4 entry.
Lookup_fallback(reg, name) ==
  IF name \in DOMAIN reg THEN <<reg[name]>> ELSE <<reg["ks4_performance"]>>

\* Lines 38-41 of run_pipeline: the class registered under name, <<>> when the
\* name is not registered (ValueError).
Lookup(reg, name) == IF name \in DOMAIN reg THEN <<reg[name]>> ELSE <<>>

\* Mutant: the name to run is the key-stage-4 pipeline whatever was detected.
smart_load_name_ks4(file_path, pipeline_name) ==
  IF pipeline_name = None
  THEN (IF auto_detect_pipeline(file_path) = None THEN None ELSE "ks4_performance")
  ELSE pipeline_name

\* Lines 112-119 of smart_load: the name handed to run_pipeline, None when
\* smart_load returns without running.
smart_load_name(file_path, pipeline_name) ==
  IF pipeline_name = None THEN auto_detect_pipeline(file_path) ELSE pipeline_name

\* ------------------------------------------- UKEducationDB as the CLI sees it
\* A database as the status command finds it (the password is set, or the
\* import of the registry would have ended the process): whether a connection
\* can be made, and for each counted table whether it is absent, empty or has rows.
\* A Python value that is a str or an int is [str |-> s] or [int |-> n].
CountedTables ==
  <<"schools", "school_performance", "sen_pupils", "ofsted_inspections",
    "graduate_outcomes", "sen_categories", "school_types", "local_authorities">>

\* test_connection: a dict with 'status' 'success' or 'error'; it never raises.
test_connection(db) ==
  IF db.connects THEN [status |-> "success"] ELSE [status |-> "error"]

\* bool(value) of a dict.
Truthy(value) == DOMAIN value # {}

\* get_table_counts: the items of the dict returned, in insertion order.  The
\* bare except turns every failure of a table's query into 'Error'.
get_table_counts(db) ==
  [i \in DOMAIN CountedTables |->
     [table |-> CountedTables[i],
      count |-> IF ~db.connects \/ db.tables[CountedTables[i]] = "absent"
                THEN [str |-> "Error"]
                ELSE [int |-> IF db.tables[CountedTables[i]] = "rows" THEN 5 ELSE 0]]]

\* ------------------------------------------------------------------ etl_cli
Line(text, table) == [line |-> text, table |-> table]

RECURSIVE PrintCounts(_)
\* The loop of cmd_status over counts.items(): the lines printed and whether
\* 'count > 0' raised TypeError (a str compared with an int).
PrintCounts(items) ==
  IF items = <<>> THEN [out |-> <<>>, raised |-> FALSE]
  ELSE LET count == Head(items).count
       IN IF "str" \in DOMAIN count
          THEN [out |-> <<>>, raised |-> TRUE]
          ELSE LET rest == PrintCounts(Tail(items))
               IN [out |-> (IF count.int > 0
                            THEN <<Line("count", Head(items).table)>> ELSE <<>>)
                           \o rest.out,
                   raised |-> rest.raised]

\* cmd_status: the lines printed and the counts it was given.  It returns
\* None on every path.
cmd_status(db) ==
  LET failed == <<Line("Database status check failed", None)>>
  IN IF ~Truthy(test_connection(db))
     THEN [out |-> <<Line("Database connection: FAILED", None)>>, counts |-> <<>>]
     ELSE LET counts == get_table_counts(db)
              listing == PrintCounts(counts)
              head == <<Line("Database connection: OK", None),
                        Line("Table Counts:", None)>> \o listing.out
          IN IF listing.raised
             THEN [out |-> head \o failed, counts |-> counts]
             ELSE [out |-> head \o <<Line("Recent Data Sources:", None)>> \o
                           (IF db.connects /\ db.tables["data_sources"] # "absent"
                            THEN <<Line("recent", "data_sources")>>
                            ELSE <<Line("Error loading recent sources", None)>>),
                   counts |-> counts]

\* What registry.run_pipeline does for cmd_run and cmd_load, with the default
\* registry: it raises for a name that is not registered and otherwise
\* returns the results of the run, whose status is run_status.
RunOutcome(name, run_status) ==
  IF Lookup(DefaultRegistry, name) = <<>> THEN "raised" ELSE run_status

\* cmd_run: True or False.  file says whether a path was given, latest whether
\* get_latest_ks4_file / get_latest_sen_file finds one.
cmd_run(pipeline_name, file, latest, run_status) ==
  LET file_path == file \/ (pipeline_name \in {"ks4_performance", "sen_statistics"}
                              /\ latest)
  IN IF ~file_path THEN FALSE
     ELSE RunOutcome(pipeline_name, run_status) = "success"

\* cmd_load: True or False.  exists says whether the path is an existing file.
cmd_load(file_path, exists, run_status) ==
  IF ~exists THEN FALSE
  ELSE LET name == smart_load_name(file_path, None)
       IN IF name = None THEN FALSE
          ELSE RunOutcome(name, run_status) = "success"

\* main: the exit status of the process.  Only run and load call sys.exit.
ExitStatus(command, success) ==
  IF command \in {"run", "load"} THEN (IF success THEN 0 ELSE 1) ELSE 0

\* ------------------------------------------------------ the loader scripts
\* The row both loader scripts append to data_sources (no error_message).
load_record(records_loaded) ==
  [records_loaded |-> records_loaded, load_status |-> "success",
   error_message |-> <<None>>]

\* load_schools_and_performance (ks4_performance_loader.py): the store and the
\* ledger afterwards and the value returned.  The file has the columns the
\* script reads; schools_ok, perf_ok and audit_ok say whether each write
\* returns.  Any exception is caught and makes the script return False; with
\* no school record, db is never bound and the audit write raises NameError.
load_schools_and_performance(file, st, ledger, schools_ok, perf_ok, audit_ok) ==
  LET keys == SelectSeq(GroupKeys(file.urns), IntParses)
      schools_df == drop_duplicates(
                      [i \in 1..Len(keys) |->
                         [urn |-> IntOf(keys[i]), school_name |-> keys[i]]], {"urn"})
      perf_df == [i \in 1..Len(keys) |->
                    [urn |-> IntOf(keys[i]), academic_year |-> "2023-24",
                     key_stage |-> "KS4"]]
      st1 == write_dataframe(st, schools_df, "schools", "append")
      st2 == write_dataframe(st1, perf_df, "school_performance", "append")
  IN IF ~file.readable \/ keys = <<>> \/ ~schools_ok
     THEN [store |-> st, data_sources |-> ledger, ret |-> FALSE]
     ELSE IF ~perf_ok
     THEN [store |-> st1, data_sources |-> ledger, ret |-> FALSE]
     ELSE IF ~audit_ok
     THEN [store |-> st2, data_sources |-> ledger, ret |-> FALSE]
     ELSE [store |-> st2,
           data_sources |-> Append(ledger, load_record(Len(perf_df))),
           ret |-> TRUE]

\* load_sen_data (sen_loader.py), which writes local_authorities and
\* sen_pupils and then the ledger: the ledger afterwards and the value
\* returned (an exception is not caught and ends the script).  loaded_ok says
\* whether the script reaches its audit write, with records SEN rows.
load_sen_data(ledger, records, loaded_ok, audit_ok) ==
  IF loaded_ok /\ audit_ok
  THEN [data_sources |-> Append(ledger, load_record(records)), ret |-> TRUE]
  ELSE [data_sources |-> ledger, ret |-> FALSE]

\* --------------------------------------------------- BaseETLPipeline.run
\* results as run() builds it first.  'errors' and 'warnings' hold a fresh
\* empty list until the finalisation binds them to self.errors and
\* self.warnings (the same list objects, not copies).
NewList == "[]"
SelfErrors == "self.errors"
SelfWarnings == "self.warnings"

\* datetime.now() and a difference of two such values.
Datetime == "datetime"
Timedelta == "timedelta"

InitialResults ==
  [status |-> "success", start_time |-> Datetime, records_loaded |-> EmptyDict,
   errors |-> NewList, warnings |-> NewList]

\* Mutant: the handler leaves the status as it was.
HandlerResults_nostatus(res) == res

\* Line 183: the handler marks the run failed.
HandlerResults(res) == [res EXCEPT !.status = "failed"]

\* Lines 186-190: the finalisation of results.
Finalize(res) ==
  ("end_time" :> Datetime) @@ ("duration" :> Timedelta) @@
    [res EXCEPT !.errors = SelfErrors, !.warnings = SelfWarnings]

\* What a reader of a results dict sees in its list fields.
ErrorsOf(res) == IF res.errors = SelfErrors THEN errors ELSE <<>>
WarningsOf(res) == IF res.warnings = SelfWarnings THEN warnings ELSE <<>>
HasTotal(res) == "total_records" \in DOMAIN res

NoData == [t \in DataTables |-> <<>>]

\* The outcome of a run as its caller has it when run() returns.
Snapshot(res, st, errs, evs) ==
  [file |-> current_file, results |-> res, store |-> st, errors |-> errs,
   events |-> evs, start |-> start]

NoCall == "no call"

Init ==
  /\ pc = "idle"
  /\ runs = 0
  /\ current_file = NoFile
  /\ raw_data = NoFile
  /\ transformed_data = NoData
  /\ todo = <<>>
  /\ load_results = EmptyDict
  /\ errors = <<>>
  /\ warnings = <<>>
  /\ results = InitialResults
  /\ store \in {[t \in DataTables |-> <<>>],
                [t \in DataTables |->
                   IF t = "schools"
                   THEN <<[urn |-> 234567, school_name |-> "234567"]>>
                   ELSE <<>>]}
  /\ data_sources = <<>>
  /\ events = <<>>
  /\ start = [store |-> store, data_sources |-> <<>>, errors |-> <<>>,
              warnings |-> <<>>]
  /\ first = <<>>
  /\ call = NoCall
  /\ ret = NoCall
  /\ pipelines = DefaultRegistry
  /\ instance = KS4PerformancePipeline(EmptyDict)

\* run(file_path) is called: lines 146-156.  The instance is run again on the
\* file of its first run.
RunStart(file) ==
  /\ pc \in {"idle", "returned"}
  /\ runs < MaxRuns
  /\ first # <<>> => file = first[1].file
  /\ pc' = "extract"
  /\ runs' = runs + 1
  /\ current_file' = file
  /\ results' = InitialResults
  /\ raw_data' = NoFile
  /\ transformed_data' = NoData
  /\ todo' = <<>>
  /\ load_results' = EmptyDict
  /\ events' = <<>>
  /\ start' = [store |-> store, data_sources |-> data_sources, errors |-> errors,
               warnings |-> warnings]
  /\ UNCHANGED <<errors, warnings, store, data_sources, first, call, ret,
                 pipelines, instance>>

\* Line 161: extract returns the raw frame or raises.
Extract ==
  /\ pc = "extract"
  /\ IF ExtractRaises(current_file)
     THEN /\ pc' = "except"
          /\ events' = Append(events, [ev |-> "extract", ok |-> FALSE])
          /\ UNCHANGED raw_data
     ELSE /\ pc' = "transform"
          /\ raw_data' = current_file
          /\ events' = Append(events, [ev |-> "extract", ok |-> TRUE])
  /\ UNCHANGED <<runs, current_file, transformed_data, todo, load_results, errors,
                 warnings, results, store, data_sources, start, first, call, ret,
                 pipelines, instance>>

\* Line 166: transform returns the dict of frames or raises; line 170 enters
\* load(), whose results dict starts empty.
Transform ==
  /\ pc = "transform"
  /\ IF TransformRaises(raw_data)
     THEN /\ pc' = "except"
          /\ events' = Append(events, [ev |-> "transform", ok |-> FALSE])
          /\ UNCHANGED <<transformed_data, warnings, todo, load_results>>
     ELSE LET t == transform(raw_data, warnings)
          IN /\ pc' = "load"
             /\ transformed_data' = t.data
             /\ warnings' = t.warnings
             /\ todo' = TransformOrder
             /\ load_results' = EmptyDict
             /\ events' = Append(events, [ev |-> "transform", ok |-> TRUE])
  /\ UNCHANGED <<runs, current_file, raw_data, errors, results, store, data_sources,
                 start, first, call, ret,
                 pipelines, instance>>

\* Lines 83-121: one iteration of load()'s loop.
LoadTable ==
  /\ pc = "load"
  /\ todo # <<>>
  /\ \E read_ok \in BOOLEAN, write_ok \in BOOLEAN :
       LET table_name == Head(todo)
           r == LoadIteration(table_name, transformed_data[table_name], store, errors,
                              warnings, load_results, read_ok, write_ok)
       IN /\ store' = r.store
          /\ errors' = r.errors
          /\ warnings' = r.warnings
          /\ load_results' = r.load_results
          /\ events' = events \o r.events
  /\ todo' = Tail(todo)
  /\ UNCHANGED <<pc, runs, current_file, raw_data, transformed_data, results,
                 data_sources, start, first, call, ret,
                 pipelines, instance>>

\* Lines 179-184, then 186-193: run()'s own handler and the return.  An
\* exception raised inside the handler leaves run().
Handler(evs, ledger) ==
  \E audit_ok \in BOOLEAN :
    LET errs == Append(errors, Msg("ETL pipeline failed", "exception"))
        a == record_data_source(ledger, 0, "failed", errs, audit_ok)
        evs2 == Append(evs, [ev |-> "audit", ok |-> audit_ok, status |-> "failed",
                             records_loaded |-> 0])
        res == Finalize(HandlerResults(results))
    IN /\ errors' = errs
       /\ data_sources' = a.data_sources
       /\ events' = evs2
       /\ IF a.raised
          THEN /\ pc' = "raised"
               /\ results' = HandlerResults(results)
               /\ UNCHANGED first
          ELSE /\ pc' = "returned"
               /\ results' = res
               /\ first' = IF runs = 1
                           THEN <<Snapshot(res, store, errs, evs2)>>
                           ELSE first

\* An exception of extract or transform reaches run()'s handler.
Except ==
  /\ pc = "except"
  /\ Handler(events, data_sources)
  /\ UNCHANGED <<runs, current_file, raw_data, transformed_data, todo, load_results,
                 warnings, store, start, call, ret,
                 pipelines, instance>>

\* load() returned: lines 172-177, then 186-193.  record_data_source is called
\* inside the try block, so an exception it raised would reach the handler.
Record ==
  /\ pc = "load"
  /\ todo = <<>>
  /\ \E audit_ok \in BOOLEAN :
       LET total_records == SumValues(load_results)
           a == record_data_source(data_sources, total_records, "success", errors,
                                   audit_ok)
           evs2 == Append(events, [ev |-> "audit", ok |-> audit_ok, status |-> "success",
                                   records_loaded |-> total_records])
           res == Finalize(("total_records" :> total_records) @@
                           [results EXCEPT !.records_loaded = load_results])
       IN IF a.raised
          THEN Handler(evs2, a.data_sources)
          ELSE /\ pc' = "returned"
               /\ data_sources' = a.data_sources
               /\ events' = evs2
               /\ results' = res
               /\ first' = IF runs = 1
                           THEN <<Snapshot(res, store, errors, evs2)>>
                           ELSE first
               /\ UNCHANGED errors
  /\ UNCHANGED <<runs, current_file, raw_data, transformed_data, todo, load_results,
                 warnings, store, start, call, ret,
                 pipelines, instance>>

Next ==
  \/ \E file \in Files : RunStart(file)
  \/ Extract
  \/ Transform
  \/ LoadTable
  \/ Record
  \/ Except

Spec == Init /\ [][Next]_vars

\* ------------------------------------------- run() of any subclass, to its end
\* Line 80, reached from line 170: get_load_config is abstract, and a
\* subclass's implementation may raise; load() has not entered its loop, so
\* the exception leaves load() and reaches run()'s handler.
LoadConfigRaises ==
  /\ pc = "load"
  /\ todo = TransformOrder
  /\ pc' = "except"
  /\ events' = Append(events, [ev |-> "get_load_config", ok |-> FALSE])
  /\ UNCHANGED <<runs, current_file, raw_data, transformed_data, todo, load_results,
                 errors, warnings, results, store, data_sources, start, first, call,
                 ret, pipelines, instance>>

NextSubclass == Next \/ LoadConfigRaises

SpecSubclass == Init /\ [][NextSubclass]_vars

\* run() is one thread of blocking calls: once entered it takes its next step
\* whenever the call it waits on returns or raises.
Fairness ==
  /\ WF_vars(Extract)
  /\ WF_vars(Transform)
  /\ WF_vars(LoadTable)
  /\ WF_vars(Record)
  /\ WF_vars(Except)

\* Which step run() takes next does not depend on how many rows the file has:
\* the runs followed to their end are on files of at most one row.
FairFiles == {file \in Files : Len(file.urns) <= 1}

NextFair ==
  \/ \E file \in FairFiles : RunStart(file)
  \/ Extract
  \/ Transform
  \/ LoadConfigRaises
  \/ LoadTable
  \/ Record
  \/ Except

FairSpec == Init /\ [][NextFair]_vars /\ Fairness

\* ---------------------------------------------- validate_data on its own
\* Frames with every set of columns, tables with and without a required-column
\* entry, and an error log that is empty or not.
ValColumns == {"urn", "school_name", "academic_year", "key_stage"}
ValTables == {"schools", "school_performance", "sen_pupils", "graduate_outcomes"}
ValFrames ==
  {<<>>} \cup {[i \in 1..k |-> [c \in cols |-> "v"]] :
                 cols \in SUBSET ValColumns, k \in 1..MaxRows}

InitValidate ==
  /\ pc = "call"
  /\ call \in [df : ValFrames, table_name : ValTables,
               errs : {<<>>, <<Msg("Failed to load", "schools")>>}]
  /\ errors = call.errs
  /\ ret = NoCall
  /\ runs = 0
  /\ current_file = NoFile
  /\ raw_data = NoFile
  /\ transformed_data = NoData
  /\ todo = <<>>
  /\ load_results = EmptyDict
  /\ warnings = <<>>
  /\ results = InitialResults
  /\ store = [t \in DataTables |-> <<>>]
  /\ data_sources = <<>>
  /\ events = <<>>
  /\ start = [store |-> store, data_sources |-> <<>>, errors |-> errors,
              warnings |-> <<>>]
  /\ first = <<>>
  /\ pipelines = DefaultRegistry
  /\ instance = KS4PerformancePipeline(EmptyDict)

ValidateCall ==
  /\ pc = "call"
  /\ LET v == validate_data(call.df, call.table_name, errors)
     IN /\ ret' = v.ret
        /\ errors' = v.errors
  /\ pc' = "called"
  /\ UNCHANGED <<runs, current_file, raw_data, transformed_data, todo, load_results,
                 warnings, results, store, data_sources, events, start, first, call,
                 pipelines, instance>>

SpecValidate == InitValidate /\ [][ValidateCall]_vars

\* ------------------------------------------- helpers called on their own
\* The state of the pipeline variables a helper called on its own leaves alone.
PipelineVars ==
  <<runs, current_file, raw_data, transformed_data, todo, load_results, results,
    store, data_sources, events, start, first, pipelines, instance>>

PipelineIdle ==
  /\ runs = 0
  /\ current_file = NoFile
  /\ raw_data = NoFile
  /\ transformed_data = NoData
  /\ todo = <<>>
  /\ load_results = EmptyDict
  /\ results = InitialResults
  /\ store = [t \in DataTables |-> <<>>]
  /\ data_sources = <<>>
  /\ events = <<>>
  /\ start = [store |-> store, data_sources |-> <<>>, errors |-> <<>>,
              warnings |-> <<>>]
  /\ first = <<>>
  /\ pipelines = DefaultRegistry
  /\ instance = KS4PerformancePipeline(EmptyDict)

\* ------------------------------- check_score_ranges, check_percentage_ranges
\* Frames of numeric columns: two score columns and a percentage column, each
\* with absent cells, cells on both bounds of its range and cells just outside.
RangeColumnSets ==
  {{"progress_8_score"}, {"progress_8_score", "attainment_8_score"},
   {"progress_8_score", "ebacc_entries_percentage"}, {"ebacc_entries_percentage"}}

RangeCells(col) ==
  CASE col = "progress_8_score" -> {nan, Num(-4), Num(-3), Num(3), Num(4)}
    [] col = "attainment_8_score" -> {nan, Num(-1), Num(0), Num(90), Num(91)}
    [] col = "ebacc_entries_percentage" -> {nan, Num(-1), Num(0), Num(100), Num(101)}

RangeRows(cols) ==
  {r \in [cols -> UNION {RangeCells(c) : c \in cols}] :
     \A c \in cols : r[c] \in RangeCells(c)}

RangeFrames ==
  {<<>>} \cup UNION {[1..k -> RangeRows(cols)] : cols \in RangeColumnSets, k \in 1..MaxRows}

InitRanges ==
  /\ pc = "call"
  /\ call \in [df : RangeFrames,
               warns : {<<>>, <<Msg("Removed records with invalid URNs", 1)>>}]
  /\ warnings = call.warns
  /\ errors = <<>>
  /\ ret = NoCall
  /\ PipelineIdle

\* perf_df = self.check_percentage_ranges(perf_df, percentage_cols)
PercentageCall ==
  /\ pc = "call"
  /\ LET r == check_percentage_ranges(call.df, percentage_cols, warnings)
     IN /\ ret' = r.df
        /\ warnings' = r.warnings
  /\ pc' = "percentage"
  /\ UNCHANGED <<errors, call>>
  /\ UNCHANGED PipelineVars

\* perf_df = self.check_score_ranges(perf_df, score_ranges)
ScoreCall ==
  /\ pc = "call"
  /\ LET r == check_score_ranges(call.df, score_ranges, warnings)
     IN /\ ret' = r.df
        /\ warnings' = r.warnings
  /\ pc' = "score"
  /\ UNCHANGED <<errors, call>>
  /\ UNCHANGED PipelineVars

NextRanges == PercentageCall \/ ScoreCall

SpecRanges == InitRanges /\ [][NextRanges]_vars

\* ------------------------------------------------------------ clean_dfe_codes
\* Cells: every code of the helper and of the configuration, codes in another
\* case, a number, the empty string and an absent cell.
CodeCells ==
  {dfe_codes[i] : i \in DOMAIN dfe_codes} \cup {DFE_CODES[i] : i \in DOMAIN DFE_CODES}
    \cup {"Z", "supp", "5", "", NaCell}

InitClean ==
  /\ pc = "call"
  /\ call \in [series : SeqUpTo(CodeCells, MaxRows)]
  /\ ret = NoCall
  /\ errors = <<>>
  /\ warnings = <<>>
  /\ PipelineIdle

\* cleaned = clean_dfe_codes(series)
CleanCall ==
  /\ pc = "call"
  /\ LET r == clean_dfe_codes(call.series)
     IN /\ ret' = <<r.cleaned>>
        /\ call' = [series |-> r.series]
  /\ pc' = "cleaned"
  /\ UNCHANGED <<errors, warnings>>
  /\ UNCHANGED PipelineVars

\* clean_dfe_codes(cleaned): the helper applied to its own result.
CleanAgain ==
  /\ pc = "cleaned"
  /\ LET r == clean_dfe_codes(ret[1])
     IN ret' = <<r.series, r.cleaned>>
  /\ pc' = "cleaned twice"
  /\ UNCHANGED <<errors, warnings, call>>
  /\ UNCHANGED PipelineVars

\* numeric = clean_numeric_column(series)
NumericCall ==
  /\ pc = "call"
  /\ ret' = <<clean_numeric_column(call.series)>>
  /\ pc' = "numeric"
  /\ UNCHANGED <<errors, warnings, call>>
  /\ UNCHANGED PipelineVars

NextClean == CleanCall \/ CleanAgain \/ NumericCall

SpecClean == InitClean /\ [][NextClean]_vars

\* ------------------------------------------------ PipelineRegistry at work
\* The registry is called up to MaxRuns times, each time with the same file
\* (its path and its content) and the same academic_year keyword, by
\* run_pipeline(name, file) or smart_load(file[, name]).  Between calls a
\* second name may be registered.
NoInstance == [class |-> None, academic_year |-> None]
RegistryPaths ==
  {[parent |-> <<"key-stage-4">>, name |-> <<"performance_tables", "x">>],
   [parent |-> <<"special-educational-needs">>, name |-> <<"sen_", "x">>],
   [parent |-> <<>>, name |-> <<"random_file">>]}
RegistryFiles ==
  {NoFile,
   [readable |-> TRUE, cols |-> {"school_urn", "school_name"}, urns |-> <<"123456">>]}
RegistryKwargs == {EmptyDict, [academic_year |-> "2022-23"]}

InitRegistry ==
  /\ pc = "idle"
  /\ call \in [op : {None}, name : {None}, file_path : RegistryPaths,
               content : RegistryFiles, kwargs : RegistryKwargs]
  /\ ret = [kind |-> "pending"]
  /\ pipelines = DefaultRegistry
  /\ instance = NoInstance
  /\ runs = 0
  /\ current_file = NoFile
  /\ raw_data = NoFile
  /\ transformed_data = NoData
  /\ todo = <<>>
  /\ load_results = EmptyDict
  /\ errors = <<>>
  /\ warnings = <<>>
  /\ results = InitialResults
  /\ store = [t \in DataTables |-> <<>>]
  /\ data_sources = <<>>
  /\ events = <<>>
  /\ start = [store |-> store, data_sources |-> <<>>, errors |-> <<>>,
              warnings |-> <<>>]
  /\ first = <<>>

\* registry.register_pipeline('sen_statistics', KS4PerformancePipeline)
Register ==
  /\ pc = "idle"
  /\ "sen_statistics" \notin DOMAIN pipelines
  /\ pipelines' = register_pipeline(pipelines, "sen_statistics", "KS4PerformancePipeline")
  /\ UNCHANGED <<pc, runs, current_file, raw_data, transformed_data, todo,
                 load_results, errors, warnings, results, store, data_sources,
                 events, start, first, call, ret, instance>>

\* run_pipeline(name, ...) up to the call of pipeline.run, and that call up to
\* its try block (lines 146-156 of run).
StartPipeline(name) ==
  LET pipeline_class == Lookup(pipelines, name)
  IN IF pipeline_class = <<>>
     THEN /\ pc' = "idle"
          /\ ret' = [kind |-> "ValueError"]
          /\ events' = <<[ev |-> "run_pipeline", name |-> name, ok |-> FALSE]>>
          /\ UNCHANGED <<runs, current_file, raw_data, transformed_data, todo,
                         load_results, errors, warnings, results, store,
                         data_sources, start, first, instance>>
     ELSE /\ pc' = "extract"
          /\ ret' = [kind |-> "pending"]
          /\ instance' = [KS4PerformancePipeline(call.kwargs)
                            EXCEPT !.class = pipeline_class[1]]
          /\ errors' = <<>>
          /\ warnings' = <<>>
          /\ runs' = runs + 1
          /\ current_file' = call.content
          /\ results' = InitialResults
          /\ raw_data' = NoFile
          /\ transformed_data' = NoData
          /\ todo' = <<>>
          /\ load_results' = EmptyDict
          /\ events' = <<[ev |-> "run_pipeline", name |-> name, ok |-> TRUE]>>
          /\ start' = [store |-> store, data_sources |-> data_sources,
                       errors |-> <<>>, warnings |-> <<>>]
          /\ UNCHANGED <<store, data_sources, first>>

\* registry.run_pipeline(name, file_path, **kwargs)
RunPipeline(name) ==
  /\ pc = "idle"
  /\ runs < MaxRuns
  /\ call' = [call EXCEPT !.op = "run_pipeline", !.name = name]
  /\ StartPipeline(name)
  /\ UNCHANGED pipelines

\* registry.smart_load(file_path, pipeline_name, **kwargs)
SmartLoad(pipeline_name) ==
  /\ pc = "idle"
  /\ runs < MaxRuns
  /\ call' = [call EXCEPT !.op = "smart_load", !.name = pipeline_name]
  /\ LET name == smart_load_name(call.file_path, pipeline_name)
     IN IF name = None
        THEN /\ ret' = [kind |-> "None"]
             /\ events' = <<>>
             /\ UNCHANGED <<pc, runs, current_file, raw_data, transformed_data, todo,
                            load_results, errors, warnings, results, store,
                            data_sources, start, first, instance>>
        ELSE StartPipeline(name)
  /\ UNCHANGED pipelines

\* return results (line 47 of run_pipeline, line 121 of smart_load)
RegistryReturn ==
  /\ pc = "returned"
  /\ pc' = "idle"
  /\ ret' = [kind |-> "results", results |-> results]
  /\ UNCHANGED <<runs, current_file, raw_data, transformed_data, todo,
                 load_results, errors, warnings, results, store, data_sources,
                 events, start, first, call, pipelines, instance>>

NextRegistry ==
  \/ Register
  \/ \E name \in {"ks4_performance", "sen_statistics"} : RunPipeline(name)
  \/ \E pipeline_name \in {None, "ks4_performance"} : SmartLoad(pipeline_name)
  \/ Extract
  \/ Transform
  \/ LoadTable
  \/ Record
  \/ Except
  \/ RegistryReturn

SpecRegistry == InitRegistry /\ [][NextRegistry]_vars

\* ------------------------------------- pipeline runs and loader scripts
\* The pipeline is run on an unreadable file or on a file of one school; the
\* loader scripts are run between its runs, while the ledger has fewer than
\* MaxRuns rows and the two tables together fewer than MaxRows - 1.
LoaderFiles ==
  {[readable |-> FALSE, urns |-> <<>>], [readable |-> TRUE, urns |-> <<>>],
   [readable |-> TRUE, urns |-> <<"123456">>]}
LoaderMayRun ==
  /\ pc \in {"idle", "returned"}
  /\ Len(data_sources) < MaxRuns
  /\ Len(store["schools"]) + Len(store["school_performance"]) + 1 < MaxRows

\* python ks4_performance_loader.py
KS4LoaderScript ==
  /\ LoaderMayRun
  /\ \E file \in LoaderFiles, schools_ok \in BOOLEAN, perf_ok \in BOOLEAN,
        audit_ok \in BOOLEAN :
       LET r == load_schools_and_performance(file, store, data_sources, schools_ok,
                                             perf_ok, audit_ok)
       IN /\ store' = r.store
          /\ data_sources' = r.data_sources
  /\ UNCHANGED <<pc, runs, current_file, raw_data, transformed_data, todo,
                 load_results, errors, warnings, results, events, start, first, call,
                 ret, pipelines, instance>>

\* python sen_loader.py
SenLoaderScript ==
  /\ LoaderMayRun
  /\ \E records \in {0, MaxRows}, loaded_ok \in BOOLEAN, audit_ok \in BOOLEAN :
       LET r == load_sen_data(data_sources, records, loaded_ok, audit_ok)
       IN data_sources' = r.data_sources
  /\ UNCHANGED <<pc, runs, current_file, raw_data, transformed_data, todo,
                 load_results, errors, warnings, results, store, events, start, first,
                 call, ret, pipelines, instance>>

NextLedger ==
  \/ \E file \in RegistryFiles : RunStart(file)
  \/ Extract
  \/ Transform
  \/ LoadTable
  \/ Record
  \/ Except
  \/ KS4LoaderScript
  \/ SenLoaderScript

SpecLedger == Init /\ [][NextLedger]_vars

\* ------------------------------------------------------- the command line
\* One process: a command, its arguments and what it finds around it.
Databases ==
  [connects : BOOLEAN,
   tables : [{CountedTables[i] : i \in 1..3} \cup {"data_sources"}
               -> {"absent", "empty", "rows"}]]
DatabaseOf(db) ==
  [db EXCEPT !.tables = [t \in {CountedTables[i] : i \in DOMAIN CountedTables}
                                \cup {"data_sources"} |->
                           IF t \in DOMAIN db.tables THEN db.tables[t] ELSE "rows"]]
CommandLines ==
  [command : {"status"}, db : Databases]
    \cup [command : {"run"}, pipeline : {"ks4_performance", "sen_statistics",
                                          "graduate_outcomes"},
          file : BOOLEAN, latest : BOOLEAN, run_status : {"success", "failed"}]
    \cup [command : {"load"}, file_path : RegistryPaths, exists : BOOLEAN,
          run_status : {"success", "failed"}]
    \cup [command : {"list", "datasets", "history"}]

InitCli ==
  /\ pc = "shell"
  /\ call \in CommandLines
  /\ ret = [exit |-> None]
  /\ pipelines = DefaultRegistry
  /\ instance = NoInstance
  /\ errors = <<>>
  /\ warnings = <<>>
  /\ runs = 0
  /\ current_file = NoFile
  /\ raw_data = NoFile
  /\ transformed_data = NoData
  /\ todo = <<>>
  /\ load_results = EmptyDict
  /\ results = InitialResults
  /\ store = [t \in DataTables |-> <<>>]
  /\ data_sources = <<>>
  /\ events = <<>>
  /\ start = [store |-> store, data_sources |-> <<>>, errors |-> <<>>,
              warnings |-> <<>>]
  /\ first = <<>>

CliVars ==
  <<runs, current_file, raw_data, transformed_data, todo, load_results, errors,
    warnings, results, store, data_sources, events, start, first, call, pipelines,
    instance>>

\* python etl_cli.py status
StatusCommand ==
  /\ pc = "shell"
  /\ call.command = "status"
  /\ LET r == cmd_status(DatabaseOf(call.db))
     IN ret' = [exit |-> ExitStatus("status", TRUE), out |-> r.out,
                counts |-> r.counts]
  /\ pc' = "exited"
  /\ UNCHANGED CliVars

\* python etl_cli.py run <pipeline> [file]
RunCommand ==
  /\ pc = "shell"
  /\ call.command = "run"
  /\ LET success == cmd_run(call.pipeline, call.file, call.latest, call.run_status)
     IN ret' = [exit |-> ExitStatus("run", success)]
  /\ pc' = "exited"
  /\ UNCHANGED CliVars

\* python etl_cli.py load <file>
LoadCommand ==
  /\ pc = "shell"
  /\ call.command = "load"
  /\ LET success == cmd_load(call.file_path, call.exists, call.run_status)
     IN ret' = [exit |-> ExitStatus("load", success)]
  /\ pc' = "exited"
  /\ UNCHANGED CliVars

\* python etl_cli.py list | datasets | history
ListingCommand ==
  /\ pc = "shell"
  /\ call.command \in {"list", "datasets", "history"}
  /\ ret' = [exit |-> ExitStatus(call.command, TRUE)]
  /\ pc' = "exited"
  /\ UNCHANGED CliVars

NextCli == StatusCommand \/ RunCommand \/ LoadCommand \/ ListingCommand

SpecCli == InitCli /\ [][NextCli]_vars

\* ------------------------------------------------------ auto_detect_pipeline
\* Paths: a directory part of at most one piece and a file name of up to
\* MaxPieces pieces, over every keyword, keywords in another case and pieces
\* without a keyword.
PathPieces ==
  {"key-stage-4", "Key-Stage-4", "performance_tables", "special-educational-needs",
   "sen_", "SEN_", "ofsted", "Inspection", "graduate", "labour", "random_file", "x"}
Paths ==
  [parent : SeqUpTo(PathPieces, 1),
   name : SeqUpTo(PathPieces, MaxPieces) \ {<<>>}]

InitDetect ==
  /\ pc = "call"
  /\ call \in [file_path : Paths]
  /\ ret = NoCall
  /\ errors = <<>>
  /\ warnings = <<>>
  /\ PipelineIdle

DetectCall ==
  /\ pc = "call"
  /\ ret' = auto_detect_pipeline(call.file_path)
  /\ pc' = "detected"
  /\ UNCHANGED <<errors, warnings, call>>
  /\ UNCHANGED PipelineVars

SpecDetect == InitDetect /\ [][DetectCall]_vars

\* -------------------------------------------------------- check_urn_validity
\* Identifier cells as a caller may pass them: in range, on the lower bound,
\* above the range, below it, not a whole number, not a number.
UrnCells == {"123456", "100000", "10000000", "99", "123456.5", "abc"}
UrnFrames ==
  UNION {[1..k -> [urn : UrnCells]] : k \in 0..(MaxRows + 1)}
    \cup {[i \in 1..k |-> [school_name |-> "v"]] : k \in 1..MaxRows}

InitUrn ==
  /\ pc = "call"
  /\ call \in [df : UrnFrames]
  /\ warnings = <<>>
  /\ errors = <<>>
  /\ ret = NoCall
  /\ PipelineIdle

UrnCall ==
  /\ pc = "call"
  /\ LET r == check_urn_validity_raw(call.df, warnings)
     IN /\ ret' = r.df
        /\ warnings' = r.warnings
  /\ pc' = "urn checked"
  /\ UNCHANGED <<errors, call>>
  /\ UNCHANGED PipelineVars

SpecUrn == InitUrn /\ [][UrnCall]_vars

\* -------------------------------------------------- OfstedInspectionLoader
\* get_column_mapping: the CSV columns and their database columns, in the
\* order of the dict.
column_mapping ==
  <<[csv |-> "URN", db |-> "urn"],
    [csv |-> "Inspection start date", db |-> "inspection_date"],
    [csv |-> "Publication date", db |-> "publication_date"],
    [csv |-> "Inspection type", db |-> "inspection_type"],
    [csv |-> "Overall effectiveness", db |-> "overall_effectiveness"],
    [csv |-> "Quality of education", db |-> "quality_of_education"],
    [csv |-> "Behaviour and attitudes", db |-> "behaviour_and_attitudes"],
    [csv |-> "Personal development", db |-> "personal_development"],
    [csv |-> "Effectiveness of leadership and management",
     db |-> "leadership_and_management"],
    [csv |-> "Previous inspection start date", db |-> "previous_inspection_date"],
    [csv |-> "Previous graded inspection overall effectiveness",
     db |-> "previous_overall_rating"]>>

MappedCsvColumns == {column_mapping[i].csv : i \in DOMAIN column_mapping}

\* df[col] and dropna(subset=[col]) raise KeyError when the frame has no such
\* column.
HasColumn(columns, col) == col \in columns

\* load_data: what the call does for a file with the given header.  read_ok
\* and write_ok say whether the read of schools and the write of
\* ofsted_inspections return or raise.  Gives how the call ended (returned a
\* value or raised), the Found/Missing lines printed and the columns of the
\* frame written.
\* The optional DELETE and the batched writes act on ofsted_inspections only,
\* whose rows the model does not keep.
load_data(file, dry_run, read_ok, write_ok) ==
  LET available == SelectSeq(column_mapping, LAMBDA m : m.csv \in file.cols)
      notices == [i \in DOMAIN column_mapping |->
                    Line(IF column_mapping[i].csv \in file.cols THEN "Found" ELSE "Missing",
                         column_mapping[i].csv)]
      columns == {available[i].db : i \in DOMAIN available} \cup {"created_at", "updated_at"}
      result(kind, value, out, written) ==
        [kind |-> kind, value |-> value, out |-> out, written |-> written]
  IN IF ~file.exists \/ ~file.readable
     THEN result("returned", "False", <<>>, {})
     ELSE IF available = <<>>
     THEN result("returned", "False", notices, {})
     ELSE IF ~read_ok
     THEN result("raised", "read_sql", notices, {})
     ELSE IF ~HasColumn(columns, "urn")
     THEN result("raised", "KeyError", notices, {})
     ELSE IF ~HasColumn(columns, "inspection_date")
     THEN result("raised", "KeyError", notices, {})
     ELSE IF dry_run
     THEN result("returned", "True", notices, {})
     ELSE IF ~write_ok
     THEN result("returned", "False", notices, {})
     ELSE result("returned", "True", notices, columns)

\* The files load_data is called on: every header made of mapped columns and
\* of one column outside the mapping, a file that is not there and one no
\* encoding reads.
OfstedFiles ==
  [exists : {TRUE}, readable : {TRUE},
   cols : SUBSET (MappedCsvColumns \cup {"School name"})]
    \cup {[exists |-> FALSE, readable |-> FALSE, cols |-> {}],
          [exists |-> TRUE, readable |-> FALSE, cols |-> {}]}

InitOfsted ==
  /\ pc = "call"
  /\ call \in [file : OfstedFiles]
  /\ ret = [kind |-> "none"]
  /\ errors = <<>>
  /\ warnings = <<>>
  /\ PipelineIdle

\* loader.load_data(dry_run=...), as main() calls it.
LoadDataCall ==
  /\ pc = "call"
  /\ \E dry_run \in BOOLEAN, read_ok \in BOOLEAN, write_ok \in BOOLEAN :
       /\ ret' = load_data(call.file, dry_run, read_ok, write_ok)
       /\ call' = [file |-> call.file, dry_run |-> dry_run, read_ok |-> read_ok,
                   write_ok |-> write_ok]
  /\ pc' = "done"
  /\ UNCHANGED <<errors, warnings>>
  /\ UNCHANGED PipelineVars

SpecOfsted == InitOfsted /\ [][LoadDataCall]_vars

\* ================================================================ claims
\* What the history of the current run says.
EventsOf(kind) == {i \in DOMAIN events : events[i].ev = kind}
AuditAttempts == Cardinality(EventsOf("audit"))
TheAudit == events[CHOOSE i \in EventsOf("audit") : TRUE]
Raised(kind) == \E i \in EventsOf(kind) : ~events[i].ok
WriteOk(t) == \E i \in EventsOf("write") : events[i].table = t /\ events[i].ok
WriteFailed(t) == \E i \in EventsOf("write") : events[i].table = t /\ ~events[i].ok
Written(t) ==
  events[CHOOSE i \in EventsOf("write") : events[i].table = t /\ events[i].ok].rows
Processed(t) ==
  \E i \in DOMAIN events :
    events[i].ev \in {"noconfig", "invalid", "read", "write"} /\ events[i].table = t
FailedIterations ==
  Cardinality({i \in EventsOf("read") \cup EventsOf("write") : ~events[i].ok})
NewErrors == SubSeq(errors, Len(start.errors) + 1, Len(errors))
CountMsg(log, m) == Cardinality({i \in DOMAIN log : log[i] = m})
Running == pc \in {"extract", "transform", "load", "except"}
Count(rl, t) == IF t \in DOMAIN rl THEN rl[t] ELSE 0

\* C1: every run attempts exactly one audit-record write: none before the run
\* reaches its end, one when it has returned, and run() never leaves by an
\* exception of the audit write.
C1_ExactlyOneAudit ==
  /\ pc # "raised"
  /\ Running => AuditAttempts = 0
  /\ pc = "returned" => AuditAttempts = 1

C1_Witness ==
  /\ pc = "returned"
  /\ WriteFailed("schools")
  /\ AuditAttempts = 1
  /\ ~TheAudit.ok

C3_StatusFailedIffErrors ==
  pc = "returned" =>
    /\ NewErrors # <<>> => results.status = "failed"
    /\ results.status = "success" => ErrorsOf(results) = <<>>

\* C4: a table whose write raised is recorded as 0, adds one error naming it,
\* and does not stop the loop: the exception never reaches run()'s handler,
\* every table of the transformed mapping is processed, and the run returns
\* records_loaded with the written count of each table that was written.
C4_WriteFailureIsolated ==
  \A t \in DataTables :
    WriteFailed(t) =>
      /\ pc \in {"load", "returned"}
      /\ t \in DOMAIN load_results /\ load_results[t] = 0
      /\ CountMsg(NewErrors, Msg("Failed to load", t)) = 1
      /\ store[t] = start.store[t]
      /\ pc = "returned" =>
           /\ \A u \in DataTables : Processed(u)
           /\ results.records_loaded = load_results
           /\ \A u \in DataTables :
                WriteOk(u) => /\ u \in DOMAIN results.records_loaded
                              /\ results.records_loaded[u] = Len(Written(u))

C4_Witness ==
  /\ pc = "returned"
  /\ WriteOk("schools")
  /\ Len(Written("schools")) = 2
  /\ WriteFailed("school_performance")
  /\ results.records_loaded = [t \in DataTables |-> IF t = "schools" THEN 2 ELSE 0]

\* C5: a multi-table load is not atomic: at every point of a run each table
\* holds the rows it held when the run began followed by the rows the run wrote
\* to it, whatever happened to the other tables afterwards.
C5_NoRollback ==
  \A t \in DataTables :
    store[t] = start.store[t] \o (IF WriteOk(t) THEN Written(t) ELSE <<>>)

C5_Witness ==
  /\ pc = "returned"
  /\ WriteOk("schools")
  /\ WriteFailed("school_performance")
  /\ Len(store["schools"]) > Len(start.store["schools"])
  /\ results.status = "success"

\* C6: a run whose transform raised writes to no destination table, returns an
\* empty records_loaded and status 'failed', and its only write is the single
\* audit row, with load_status 'failed'.
C6_TransformFailureWritesNothing ==
  Raised("transform") =>
    /\ store = start.store
    /\ EventsOf("write") = {}
    /\ pc \in {"except", "returned"}
    /\ pc = "returned" =>
         /\ results.records_loaded = EmptyDict
         /\ results.status = "failed"
         /\ AuditAttempts = 1
         /\ TheAudit.status = "failed"
         /\ data_sources \in
              {start.data_sources,
               Append(start.data_sources,
                      [records_loaded |-> 0, load_status |-> "failed",
                       error_message |-> errors])}

C6_Witness ==
  /\ pc = "returned"
  /\ Raised("transform")
  /\ current_file.urns # <<>>
  /\ Len(data_sources) = Len(start.data_sources) + 1

\* C7: validate_data returns false and appends exactly one error when the frame
\* is empty or lacks a required column of the table, and otherwise returns
\* true and appends nothing; a table without a required-column entry accepts
\* every non-empty frame.
C7_ValidateData ==
  pc = "called" =>
    LET required == _get_required_columns(call.table_name)
        rejected == IsEmpty(call.df) \/ ~(required \subseteq Columns(call.df))
    IN /\ rejected => /\ ret = FALSE
                      /\ Len(errors) = Len(call.errs) + 1
                      /\ SubSeq(errors, 1, Len(call.errs)) = call.errs
       /\ ~rejected => ret = TRUE /\ errors = call.errs
       /\ (call.table_name = "graduate_outcomes" /\ ~IsEmpty(call.df)) => ret = TRUE

C7_Witness ==
  /\ pc = "called"
  /\ call.table_name = "school_performance"
  /\ Columns(call.df) = {"urn", "academic_year"}
  /\ ret = FALSE
  /\ Len(errors) = Len(call.errs) + 1

\* C8: a failed audit write is not raised: the run returns, with the status its
\* stages gave it, the records_loaded load() returned and only the errors of
\* its stages (one per rejected table, one per failed table, one for an
\* exception of extract or transform).
C8_AuditFailureNotRaised ==
  /\ pc # "raised"
  /\ (pc = "returned" /\ ~TheAudit.ok) =>
       LET aborted == Raised("extract") \/ Raised("transform")
       IN /\ results.status = IF aborted THEN "failed" ELSE "success"
          /\ Len(NewErrors) = Cardinality(EventsOf("invalid")) + FailedIterations
                                + (IF aborted THEN 1 ELSE 0)
          /\ ErrorsOf(results) = errors
          /\ results.records_loaded = load_results
          /\ data_sources = start.data_sources

C8_Witness ==
  /\ pc = "returned"
  /\ ~TheAudit.ok
  /\ results.status = "success"
  /\ NewErrors = <<>>
  /\ results.total_records = 2

\* C9: the count recorded for a table is the number of rows the run added to
\* it: the size of the frame written (after the pre-load hook and the
\* de-duplication) when the write returned, 0 when the iteration raised; and
\* total_records and the audit row's records_loaded are the sum of the counts.
C9_CountsMatchWrites ==
  (pc = "returned" /\ results.status = "success") =>
    LET rl == results.records_loaded
        total == Count(rl, "schools") + Count(rl, "school_performance")
    IN /\ \A t \in DOMAIN rl :
            /\ rl[t] = Len(store[t]) - Len(start.store[t])
            /\ rl[t] = IF WriteOk(t) THEN Len(Written(t)) ELSE 0
       /\ \A t \in DataTables : WriteOk(t) => t \in DOMAIN rl
       /\ results.total_records = total
       /\ TheAudit.records_loaded = total
       /\ TheAudit.ok => data_sources[Len(data_sources)].records_loaded = total

C9_Witness ==
  /\ pc = "returned"
  /\ results.status = "success"
  /\ Len(transformed_data["schools"]) = 2
  /\ WriteOk("schools") /\ Len(Written("schools")) = 1
  /\ WriteFailed("school_performance")
  /\ results.total_records = 1

PercentageRanges ==
  [i \in DOMAIN percentage_cols |->
     [col |-> percentage_cols[i], min_val |-> 0, max_val |-> 100]]
RangesChecked == IF pc = "score" THEN score_ranges ELSE PercentageRanges
InRange(cell, rng) == IsNum(cell) /\ rng.min_val <= cell[1] /\ cell[1] <= rng.max_val
OutOfRangeInputs(rng) ==
  IF rng.col \in Columns(call.df)
  THEN Cardinality({i \in DOMAIN call.df :
                      IsNum(call.df[i][rng.col]) /\ ~InRange(call.df[i][rng.col], rng)})
  ELSE 0
NewWarnings == SubSeq(warnings, Len(call.warns) + 1, Len(warnings))

\* C11: after check_score_ranges / check_percentage_ranges, every cell of a
\* checked column that was inside its inclusive [min, max] (bounds included) is
\* unchanged and every cell that was outside is absent; unchecked columns are
\* untouched; each checked column with out-of-range inputs adds exactly one
\* warning, carrying their number, a column with none adds no warning, and no
\* error is added.
C11_RangeClamping ==
  pc \in {"score", "percentage"} =>
    LET ranges == RangesChecked
        checked == {ranges[k].col : k \in DOMAIN ranges}
        rangeOf(c) == ranges[CHOOSE k \in DOMAIN ranges : ranges[k].col = c]
    IN /\ DOMAIN ret = DOMAIN call.df
       /\ \A i \in DOMAIN ret :
            /\ DOMAIN ret[i] = DOMAIN call.df[i]
            /\ \A c \in DOMAIN ret[i] :
                 IF c \in checked
                 THEN /\ ~IsNum(ret[i][c]) \/ InRange(ret[i][c], rangeOf(c))
                      /\ InRange(call.df[i][c], rangeOf(c)) => ret[i][c] = call.df[i][c]
                      /\ ~InRange(call.df[i][c], rangeOf(c)) => ret[i][c] = nan
                 ELSE ret[i][c] = call.df[i][c]
       /\ SubSeq(warnings, 1, Len(call.warns)) = call.warns
       /\ \A k \in DOMAIN ranges :
            LET n == OutOfRangeInputs(ranges[k])
                mine == {j \in DOMAIN NewWarnings : NewWarnings[j].col = ranges[k].col}
            IN /\ Cardinality(mine) = IF n > 0 THEN 1 ELSE 0
               /\ \A j \in mine : NewWarnings[j].arg = n
       /\ \A j \in DOMAIN NewWarnings : NewWarnings[j].col \in checked
       /\ errors = <<>>

C11_Witness ==
  /\ pc = "score"
  /\ Len(call.df) = 2
  /\ Columns(call.df) = {"progress_8_score", "attainment_8_score"}
  /\ call.df[1]["progress_8_score"] = Num(-3) /\ ret[1]["progress_8_score"] = Num(-3)
  /\ call.df[2]["progress_8_score"] = Num(4) /\ ret[2]["progress_8_score"] = nan
  /\ call.df[1]["attainment_8_score"] = Num(91) /\ ret[1]["attainment_8_score"] = nan
  /\ call.df[2]["attainment_8_score"] = Num(91)
  /\ Len(NewWarnings) = 2
  /\ NewWarnings[1].arg = 2 /\ NewWarnings[2].arg = 1

\* The identifier cells that are a whole number in [100000, 9999999], those
\* that are a number in that interval, and the number of input rows that are
\* not.
ValidUrnCells == {"123456", "100000"}
InIntervalCells == ValidUrnCells \cup {"123456.5"}
UrnInput == "urn" \in Columns(call.df)

\* C12: after check_urn_validity every remaining identifier is an integer in
\* [100000, 9999999], the surviving rows are exactly the input rows whose
\* identifier is such a number, in input order, and when rows were dropped
\* exactly one warning carrying their number is appended, and no error.
C12_UrnValidity ==
  (pc = "urn checked" /\ UrnInput) =>
    LET valid == {i \in DOMAIN call.df : call.df[i].urn \in ValidUrnCells}
        dropped == Len(call.df) - Cardinality(valid)
    IN /\ \A i \in DOMAIN ret :
            /\ IsWhole(ret[i].urn)
            /\ ret[i].urn[1] >= URN_MIN /\ ret[i].urn[1] <= URN_MAX
       /\ ret = [i \in DOMAIN Rows(call.df, valid) |->
                   [urn |-> to_numeric(Rows(call.df, valid)[i].urn)]]
       /\ warnings = IF dropped > 0
                     THEN <<Msg("Removed records with invalid URNs", dropped)>>
                     ELSE <<>>
       /\ errors = <<>>

\* What check_urn_validity does guarantee: every remaining identifier is a
\* number (whole or not) in the interval, the survivors are the input rows
\* with such an identifier in input order, and the warning counts the others.
C12_UrnInterval ==
  (pc = "urn checked" /\ UrnInput) =>
    LET inside == {i \in DOMAIN call.df : call.df[i].urn \in InIntervalCells}
        dropped == Len(call.df) - Cardinality(inside)
    IN /\ ret = [i \in DOMAIN Rows(call.df, inside) |->
                   [urn |-> to_numeric(Rows(call.df, inside)[i].urn)]]
       /\ warnings = IF dropped > 0
                     THEN <<Msg("Removed records with invalid URNs", dropped)>>
                     ELSE <<>>
       /\ errors = <<>>

\* The example of the claim: identifiers [123456, "abc", 99].
C12_Example ==
  /\ pc = "urn checked"
  /\ call.df = <<[urn |-> "123456"], [urn |-> "abc"], [urn |-> "99"]>>
  /\ ret = <<[urn |-> Num(123456)]>>
  /\ warnings = <<Msg("Removed records with invalid URNs", 2)>>

\* C13: clean_dfe_codes applied to its own result returns that result; one
\* application makes exactly the cells holding one of the codes absent and
\* leaves every other cell, and the column it was given, as they were.
C13_CleanIdempotent ==
  /\ [][pc = "call" => call' = call]_vars
  /\ [](pc = "cleaned" =>
          /\ DOMAIN ret[1] = DOMAIN call.series
          /\ \A i \in DOMAIN ret[1] :
               IF \E k \in DOMAIN dfe_codes : call.series[i] = dfe_codes[k]
               THEN ret[1][i] = NaCell
               ELSE ret[1][i] = call.series[i])
  /\ [](pc = "cleaned twice" => ret[2] = ret[1])

C13_Witness ==
  /\ pc = "cleaned twice"
  /\ call.series = <<"SUPP", "supp">>
  /\ ret[1] = <<NaCell, "supp">>
  /\ ret[2] = ret[1]

\* The rules in their order: the keywords looked for in the whole path and in
\* the file name, in either case, and the name returned.
DetectionRules ==
  <<[path |-> {"key-stage-4", "Key-Stage-4"}, file |-> {"performance_tables"},
     pipeline |-> "ks4_performance"],
    [path |-> {"special-educational-needs"}, file |-> {"sen_", "SEN_"},
     pipeline |-> "sen_statistics"],
    [path |-> {"ofsted"}, file |-> {"Inspection"}, pipeline |-> "ofsted_inspections"],
    [path |-> {}, file |-> {"graduate", "labour"}, pipeline |-> "graduate_outcomes"]>>
PiecesOf(text) == {text[i] : i \in DOMAIN text}
RuleMatches(rule, file_path) ==
  \/ (PiecesOf(file_path.parent) \cup PiecesOf(file_path.name)) \cap rule.path # {}
  \/ PiecesOf(file_path.name) \cap rule.file # {}
Matching(file_path) ==
  {k \in DOMAIN DetectionRules : RuleMatches(DetectionRules[k], file_path)}

\* C14: auto_detect_pipeline returns the name of the first rule, in the order
\* key-stage-4 / performance_tables, special-educational-needs / sen_,
\* ofsted / inspection, graduate / labour, whose keyword occurs (in either
\* case) in the path or the file name, and none when no rule matches.
C14_FirstMatchingRule ==
  pc = "detected" =>
    LET m == Matching(call.file_path)
    IN /\ m = {} => ret = None
       /\ m # {} =>
            ret = DetectionRules[CHOOSE k \in m : \A j \in m : k <= j].pipeline
       /\ call.file_path = [parent |-> <<"key-stage-4">>,
                            name |-> <<"performance_tables", "x">>]
            => ret = "ks4_performance"
       /\ call.file_path = [parent |-> <<"special-educational-needs">>,
                            name |-> <<"sen_", "x">>]
            => ret = "sen_statistics"
       /\ call.file_path = [parent |-> <<>>, name |-> <<"random_file">>]
            => ret = None

\* A path matching the second and the first rule gets the first.
C14_Witness ==
  /\ pc = "detected"
  /\ call.file_path = [parent |-> <<"special-educational-needs">>,
                       name |-> <<"SEN_", "performance_tables">>]
  /\ ret = "ks4_performance"

\* What a registry call left alone: no pipeline object was made, no run was
\* started, no destination table and no ledger row was written.
NothingDone ==
  /\ pc' = "idle"
  /\ instance' = instance
  /\ runs' = runs
  /\ store' = store
  /\ data_sources' = data_sources
  /\ errors' = errors
ConfiguredYear == IF call.kwargs = EmptyDict THEN "2023-24" ELSE "2022-23"
RanName == events[CHOOSE i \in EventsOf("run_pipeline") : TRUE].name

\* C15: run_pipeline with a name that is not registered raises the not-found
\* error and does nothing else: no pipeline object, no table write, no ledger
\* row.  With a registered name it constructs the class registered under that
\* name with the given academic_year, runs it on the file and returns the
\* results of that run.
C15_RunPipeline ==
  /\ [][(pc = "idle" /\ call'.op = "run_pipeline" /\ pipelines' = pipelines
           /\ call'.name \notin DOMAIN pipelines)
          => (ret'.kind = "ValueError" /\ NothingDone)]_vars
  /\ [][(pc = "idle" /\ call'.op = "run_pipeline" /\ pipelines' = pipelines
           /\ call'.name \in DOMAIN pipelines)
          => /\ pc' = "extract"
             /\ runs' = runs + 1
             /\ current_file' = call.content
             /\ instance' = [class |-> pipelines[call'.name],
                             academic_year |-> ConfiguredYear]]_vars
  /\ []((pc = "idle" /\ ret.kind = "results") =>
          /\ ret.results = results
          /\ AuditAttempts = 1
          /\ instance.class = pipelines[RanName]
          /\ \A i \in DOMAIN store["school_performance"] :
               store["school_performance"][i].academic_year = ConfiguredYear)

C15_Witness ==
  /\ pc = "idle"
  /\ call.op = "run_pipeline"
  /\ call.name = "sen_statistics"
  /\ ret.kind = "ValueError"
  /\ instance.academic_year = "2022-23"
  /\ Len(store["school_performance"]) = 1
  /\ Len(data_sources) = 1

OutLines == {ret.out[i].line : i \in DOMAIN ret.out}
StatusDone == pc = "exited" /\ call.command = "status"

\* C17: get_table_counts never raises and reports, for each of its tables, the
\* row count or 'Error' when the table cannot be counted; and the status
\* command, given those counts, finishes its listing and goes on to the recent
\* data sources even when a table is missing.
C17_StatusSurvivesMissingTable ==
  (StatusDone /\ call.db.connects) =>
    /\ Len(ret.counts) = Len(CountedTables)
    /\ \A i \in DOMAIN ret.counts :
         /\ ret.counts[i].table = CountedTables[i]
         /\ IF DatabaseOf(call.db).tables[CountedTables[i]] = "absent"
            THEN ret.counts[i].count = [str |-> "Error"]
            ELSE "int" \in DOMAIN ret.counts[i].count
    /\ "Recent Data Sources:" \in OutLines
    /\ "Database status check failed" \notin OutLines

\* C18: every command exits with status 0 when it succeeded and with a
\* non-zero status when it failed: run and load fail when no file is found,
\* when the pipeline is not found or not detected, and when the run's status
\* is not 'success'; status fails when the database cannot be connected to;
\* list, datasets and history succeed.
C18_ExitStatus ==
  pc = "exited" =>
    LET registered(name) == name \in DOMAIN DefaultRegistry
        succeeded ==
          CASE call.command = "run" ->
                 /\ call.file \/ (call.latest /\ call.pipeline \in
                                    {"ks4_performance", "sen_statistics"})
                 /\ registered(call.pipeline)
                 /\ call.run_status = "success"
            [] call.command = "load" ->
                 /\ call.exists
                 /\ Matching(call.file_path) # {}
                 /\ registered(auto_detect_pipeline(call.file_path))
                 /\ call.run_status = "success"
            [] call.command = "status" -> call.db.connects
            [] OTHER -> TRUE
    IN IF succeeded THEN ret.exit = 0 ELSE ret.exit # 0

\* C19: the audit ledger is append-only under every sequence of pipeline runs
\* and loader scripts: a step leaves data_sources as it is or appends exactly
\* one row to it, so its length never decreases and no row in it is ever
\* changed or removed.
C19_LedgerAppendOnly ==
  [][\/ data_sources' = data_sources
     \/ /\ Len(data_sources') = Len(data_sources) + 1
        /\ SubSeq(data_sources', 1, Len(data_sources)) = data_sources]_vars

\* The row of the one pipeline run made so far, which failed, and after it the
\* row of a loader script.
C19_Witness ==
  /\ pc = "returned"
  /\ runs = 1
  /\ Len(data_sources) = 2
  /\ data_sources[1].load_status = "failed"
  /\ data_sources[2] = load_record(1)

\* C20: every batch load() hands to write_dataframe is non-empty and has all the
\* columns its table requires; a batch that is empty when it is to be written,
\* whether validation found it so or the pre-load transform or the
\* de-duplication made it so, is not handed to the write.
C20_WrittenBatchesNonEmpty ==
  \A i \in EventsOf("write") :
    /\ ~IsEmpty(events[i].rows)
    /\ _get_required_columns(events[i].table) \subseteq Columns(events[i].rows)

\* ---------------------------------------------------------------- C21
UrnsOf(df) == {df[i].urn : i \in DOMAIN df}
LoadingTable(t) == pc = "load" /\ todo # <<>> /\ Head(todo) = t
Step == SubSeq(events', Len(events) + 1, Len(events'))

\* C21: school_performance changes only in the load iteration of that table,
\* and only by rows appended at its end; every appended row has a urn that is
\* in schools as the pre-load hook reads it in that iteration (the rows with
\* another urn are gone from the written frame); the frame written is the
\* transformed frame filtered by the hook and then de-duplicated, and the
\* hook's read comes before the write.
C21_FilteredAgainstSchools ==
  [][LET old == store["school_performance"]
         new == store'["school_performance"]
         added == SubSeq(new, Len(old) + 1, Len(new))
         df == transformed_data["school_performance"]
         config == get_load_config["school_performance"]
     IN /\ new # old =>
             /\ LoadingTable("school_performance")
             /\ Len(new) > Len(old)
             /\ SubSeq(new, 1, Len(old)) = old
             /\ UrnsOf(added) \subseteq UrnsOf(store["schools"])
             /\ added = drop_duplicates(
                          _filter_existing_schools(df, store["schools"]),
                          config.drop_duplicates)
        /\ LoadingTable("school_performance") =>
             \A i \in DOMAIN Step :
               Step[i].ev = "write" =>
                 /\ UrnsOf(Step[i].rows) \subseteq UrnsOf(store["schools"])
                 /\ UrnsOf(Step[i].rows) = UrnsOf(df) \cap UrnsOf(store["schools"])
                 /\ i > 1 /\ Step[i - 1].ev = "read" /\ Step[i - 1].ok
    ]_vars

\* A run wrote performance rows after the hook dropped a row of the
\* transformed frame whose urn was not in schools.
C21_Witness ==
  /\ pc = "returned"
  /\ \E i \in EventsOf("write") :
       /\ events[i].table = "school_performance" /\ events[i].ok
       /\ events[i].rows # <<>>
       /\ UrnsOf(transformed_data["school_performance"]) \ UrnsOf(events[i].rows) # {}
       /\ UrnsOf(events[i].rows) \subseteq UrnsOf(store["school_performance"])

\* ---------------------------------------------------------------- C22
StageEvents == {"extract", "transform", "read", "write"}
RaisedAt(i) == events[i].ev \in StageEvents /\ ~events[i].ok
Before(kind1, kind2) == \A i \in EventsOf(kind1), j \in EventsOf(kind2) : i < j

\* The order of the stages of one run: extract, transform and the audit write
\* happen at most once each; transform starts after extract returned, the
\* reads and writes of load come after transform returned, and the audit write
\* comes after every table write.
C22_Order ==
  /\ \A kind \in {"extract", "transform", "audit"} : Cardinality(EventsOf(kind)) <= 1
  /\ \A j \in EventsOf("transform") : \E i \in EventsOf("extract") : i < j /\ events[i].ok
  /\ \A j \in EventsOf("read") \cup EventsOf("write") :
       \E i \in EventsOf("transform") : i < j /\ events[i].ok
  /\ Before("write", "audit") /\ Before("read", "audit")
  /\ pc = "returned" => AuditAttempts = 1

\* C22: the stages of a run occur in the order extract, transform, load,
\* audit-record, none twice; and when extract, transform or load raised an
\* exception, the next thing the run does is the audit write, with status
\* 'failed', and the run ends failed.
C22_StageOrder ==
  /\ C22_Order
  /\ \A i \in DOMAIN events :
       RaisedAt(i) =>
         /\ i < Len(events) =>
              /\ i + 1 = Len(events)
              /\ events[i + 1].ev = "audit" /\ events[i + 1].status = "failed"
         /\ pc = "returned" => results.status = "failed"

\* ---------------------------------------------------------------- C23
NewWarningsOfRun == SubSeq(warnings, Len(start.warnings) + 1, Len(warnings))
LastAudit == data_sources[Len(data_sources)]

\* C23: when the second run() of an instance has returned, the errors and
\* warnings of its Result are the entries appended during that run, the error
\* text of the audit record it wrote is made of the errors of that run only,
\* and the Result the first run returned still reads as it did when the second
\* run began.
C23_ErrorsScopedToRun ==
  (pc = "returned" /\ runs = 2) =>
    /\ ErrorsOf(results) = NewErrors
    /\ WarningsOf(results) = NewWarningsOfRun
    /\ TheAudit.ok =>
         LastAudit.error_message = IF NewErrors # <<>> THEN NewErrors ELSE <<None>>
    /\ ErrorsOf(first[1].results) = start.errors
    /\ WarningsOf(first[1].results) = start.warnings

\* ---------------------------------------------------------------- C24
\* C24: for a file that has at least one of the mapped source columns, and a
\* database whose reads return, load_data prints a Missing line for every
\* mapped column the file lacks and does not raise.
C24_MissingColumnsSkipped ==
  (pc = "done" /\ call.file.cols \cap MappedCsvColumns # {} /\ call.read_ok) =>
    /\ \A c \in MappedCsvColumns \ call.file.cols :
         \E i \in DOMAIN ret.out : ret.out[i] = Line("Missing", c)
    /\ ret.kind = "returned"

\* ---------------------------------------------------------------- C25
ResultKeys == {"status", "start_time", "end_time", "duration", "errors", "warnings"}

\* C25: every run() that was entered returns; no exception leaves run(),
\* whichever of extract, transform, get_load_config, the pre-load hook, the
\* table writes and the audit write raised; and the Result returned has a
\* status of 'success' or 'failed' and the keys start_time, end_time, duration,
\* errors and warnings.
C25_RunAlwaysReturns ==
  /\ [](pc # "raised")
  /\ (pc = "extract") ~> (pc = "returned")
  /\ [](pc = "returned" =>
          /\ ResultKeys \subseteq DOMAIN results
          /\ results.status \in {"success", "failed"}
          /\ results.errors = SelfErrors /\ results.warnings = SelfWarnings)

\* A run returned after get_load_config raised and the audit write raised too.
C25_Witness ==
  /\ pc = "returned"
  /\ EventsOf("get_load_config") # {}
  /\ ~TheAudit.ok
  /\ results.status = "failed"

\* ---------------------------------------------------------------- C26
ReachedHandler ==
  Raised("extract") \/ Raised("transform") \/ EventsOf("get_load_config") # {}

\* C26: when run() has returned, the status of its Result is the load_status
\* it passed to the audit write (and of the row, when the write went through);
\* the status is 'failed' exactly when extract, transform or load() itself
\* raised into run()'s handler; and on the success path the error text of the
\* audit row is all of self.errors as it stands.
C26_StatusMatchesAudit ==
  pc = "returned" =>
    /\ AuditAttempts = 1
    /\ TheAudit.status = results.status
    /\ TheAudit.ok => LastAudit.load_status = results.status
    /\ results.status = "failed" <=> ReachedHandler
    /\ (results.status = "success" /\ TheAudit.ok) =>
         LastAudit.error_message = IF errors # <<>> THEN errors ELSE <<None>>

\* A run returned 'success' with a per-table failure among its errors and its
\* audit row written.
C26_Witness ==
  /\ pc = "returned"
  /\ results.status = "success"
  /\ WriteFailed("schools")
  /\ TheAudit.ok
  /\ LastAudit.load_status = "success"
  /\ LastAudit.error_message = errors

\* ---------------------------------------------------------------- C27
Skipped(t) ==
  \E i \in DOMAIN events : events[i].ev \in {"invalid", "noconfig"} /\ events[i].table = t
RaisedFor(t) ==
  \E i \in EventsOf("read") \cup EventsOf("write") : events[i].table = t /\ ~events[i].ok
CountFor(log, text, t) ==
  Cardinality({i \in DOMAIN log : log[i].msg = text /\ log[i].arg = t})
ValidationErrors(t) ==
  CountFor(NewErrors, "Empty dataset for", t)
    + CountFor(NewErrors, "Missing required columns for", t)

\* C27: while load() runs and after it, a table that failed validation or has
\* no load configuration was not written and has no entry in the results dict;
\* a validation failure added one error and no warning, a missing
\* configuration one warning and no error; and an entry of 0 in the results
\* dict belongs to a table whose hook or write raised.
C27_SkippedTablesAbsent ==
  pc = "load" =>
    \A t \in DataTables :
      /\ Skipped(t) =>
           /\ t \notin DOMAIN load_results
           /\ \A i \in EventsOf("write") : events[i].table # t
           /\ store[t] = start.store[t]
      /\ (\E i \in EventsOf("invalid") : events[i].table = t) =>
           /\ ValidationErrors(t) = 1
           /\ CountFor(NewWarningsOfRun, "No load config for table", t) = 0
      /\ (\E i \in EventsOf("noconfig") : events[i].table = t) =>
           /\ CountFor(NewWarningsOfRun, "No load config for table", t) = 1
           /\ ValidationErrors(t) = 0
      /\ (t \in DOMAIN load_results /\ load_results[t] = 0) => RaisedFor(t)

\* ---------------------------------------------------------------- C28
\* C28: with the registry as the module builds it, a smart_load call without
\* a pipeline name never ends in run_pipeline's not-found error: it returns
\* none or runs a registered pipeline.
C28_DetectedIsRegistered ==
  (call.op = "smart_load" /\ call.name = None /\ pipelines = DefaultRegistry) =>
    /\ ret.kind # "ValueError"
    /\ \A i \in EventsOf("run_pipeline") : events[i].ok

\* ---------------------------------------------------------------- C29
PerformanceEvents(kind) == {i \in EventsOf(kind) : events[i].table = "school_performance"}

\* C29: in a run, the read of schools made by the school_performance hook
\* comes after the attempt to write schools; when that write went through,
\* the performance rows of the schools it added are in the frame handed to the
\* performance write; when it raised, the frame holds only rows of schools
\* that were in the store when the run began.
C29_SchoolsBeforePerformance ==
  /\ \A i \in PerformanceEvents("read") :
       \E j \in EventsOf("write") : j < i /\ events[j].table = "schools"
  /\ \A i \in PerformanceEvents("write") :
       /\ \E j \in PerformanceEvents("read") : j < i
       /\ WriteOk("schools") =>
            /\ UrnsOf(Written("schools")) \subseteq UrnsOf(events[i].rows)
            /\ UrnsOf(events[i].rows) = UrnsOf(transformed_data["school_performance"])
       /\ ~WriteOk("schools") =>
            UrnsOf(events[i].rows) \subseteq UrnsOf(start.store["schools"])
       /\ events[i].ok /\ pc = "returned" =>
            UrnsOf(events[i].rows) \subseteq UrnsOf(store["school_performance"])

\* A run added a school and wrote the performance row of that school.
C29_Witness ==
  /\ pc = "returned"
  /\ WriteOk("schools") /\ WriteOk("school_performance")
  /\ UrnsOf(Written("school_performance")) \ UrnsOf(start.store["schools"]) # {}

\* ---------------------------------------------------------------- C30
ConfiguredCodes == {DFE_CODES[k] : k \in DOMAIN DFE_CODES}

\* C30: a cell holding any code of ETLConfig.DFE_CODES is absent in the column
\* clean_dfe_codes returns, and absent in the column clean_numeric_column
\* returns.
C30_ConfiguredCodesNulled ==
  /\ pc = "cleaned" =>
       \A i \in DOMAIN call.series :
         call.series[i] \in ConfiguredCodes => ret[1][i] = NaCell
  /\ pc = "numeric" =>
       \A i \in DOMAIN call.series :
         call.series[i] \in ConfiguredCodes => ret[1][i] = nan

====
